---- MODULE Spec2Model ----
(***************************************************************************)
(* Model of server/handler.py: the five request handlers of the debt-story *)
(* backend (get_submissions, post_submission, post_verified_submission,    *)
(* verify_submission, delete_submission) over the "submissions" index of   *)
(* the document store and the outbox of the mail sender.                   *)
(*                                                                         *)
(* Strings that the code takes apart (emails, names, integer parameters)   *)
(* are sequences of one-character strings; a Python dict is a function     *)
(* whose DOMAIN is its key set, so dict.get(k) is a test on the DOMAIN; a  *)
(* value that may be None where a dict is expected is a set holding at     *)
(* most one dict.                                                          *)
(***************************************************************************)
EXTENDS Integers, Sequences, FiniteSets, TLC

VARIABLES
    store,      \* the "submissions" index: document id -> source
    nextId,     \* number of ids the store has assigned so far
    clock,      \* the reading of datetime.datetime.now(): it moves on with
                \* each verifiedDate stored, so that no two are equal
    outbox,     \* the messages handed to the mail sender
    event,      \* the request handled last
    esSearch,   \* the body of the last search sent to the store
    response,   \* what the handler returned for event
    calls       \* the invocations under way: for each, the request, the place
                \* it has reached in its handler and the record it holds

vars == <<store, nextId, clock, outbox, event, esSearch, response, calls>>

----------------------------------------------------------------------------
(* Bounds of the model *)

\* the number of documents the store ever creates
MaxId == 2

\* the number of invocations that run at the same time
MaxCalls == 2

----------------------------------------------------------------------------
(* Python values *)

\* None where a string is expected
None == "None"

\* a dict value that is None, and a dict value that is d
NoDict == {}
Dict(d) == {d}

\* the empty dict
EmptyDict == [k \in {} |-> None]

\* dict.get(key): the set of values under key (empty when the key is absent)
Get(d, key) == IF key \in DOMAIN d THEN {d[key]} ELSE {}

\* {**a, **b}
Merge(a, b) ==
    [k \in DOMAIN a \cup DOMAIN b |-> IF k \in DOMAIN b THEN b[k] ELSE a[k]]

Min(a, b) == IF a < b THEN a ELSE b

\* s[:n]
Take(s, n) == SubSeq(s, 1, Min(n, Len(s)))

\* str.lower() on the characters of the model's alphabet
LowerChar(c) ==
    CASE c = "A" -> "a"
      [] c = "B" -> "b"
      [] c = "C" -> "c"
      [] c = "D" -> "d"
      [] OTHER -> c

Lower(s) == [i \in 1..Len(s) |-> LowerChar(s[i])]

\* str.split(sep) for a one-character separator
RECURSIVE SplitFrom(_, _, _, _)
SplitFrom(s, sep, i, cur) ==
    IF i > Len(s) THEN <<cur>>
    ELSE IF s[i] = sep THEN <<cur>> \o SplitFrom(s, sep, i + 1, <<>>)
    ELSE SplitFrom(s, sep, i + 1, Append(cur, s[i]))

Split(s, sep) == SplitFrom(s, sep, 1, <<>>)

\* str.replace(ch, "")
Remove(s, ch) == SelectSeq(s, LAMBDA c : c # ch)

\* the value of one decimal digit; the empty set for any other character
DigitValue(c) ==
    CASE c = "0" -> {0} [] c = "1" -> {1} [] c = "2" -> {2} [] c = "3" -> {3}
      [] c = "4" -> {4} [] c = "5" -> {5} [] c = "6" -> {6} [] c = "7" -> {7}
      [] c = "8" -> {8} [] c = "9" -> {9} [] OTHER -> {}

RECURSIVE DigitsValue(_, _)
DigitsValue(s, acc) ==
    IF s = <<>> THEN {acc}
    ELSE IF DigitValue(Head(s)) = {} THEN {}
    ELSE DigitsValue(Tail(s), 10 * acc + (CHOOSE d \in DigitValue(Head(s)) : TRUE))

\* int(s) for a string s: {v} when s is an optional sign followed by one or
\* more decimal digits, the empty set when int raises ValueError
ParseInt(s) ==
    IF s = <<>> THEN {}
    ELSE IF Head(s) \in {"-", "+"}
         THEN IF Tail(s) = <<>> THEN {}
              ELSE {IF Head(s) = "-" THEN 0 - v ELSE v : v \in DigitsValue(Tail(s), 0)}
    ELSE DigitsValue(s, 0)

\* int(x) for x = query_params.get(...): TypeError on None, ValueError on a
\* string that is no integer; both give the empty set
IntOf(x) == IF x = {} THEN {} ELSE ParseInt(CHOOSE v \in x : TRUE)

----------------------------------------------------------------------------
(* Configuration and module constants *)

UI_HOST == "UI_HOST"

CORS_HEADERS ==
    [AccessControlAllowOrigin |-> "*", AccessControlAllowCredentials |-> "True"]

fields_to_output == {"firstName", "debt", "story", "verifiedDate"}

----------------------------------------------------------------------------
(* The document store (databases.ES_DB, index "submissions").  The keys _id   *)
(* and _source of the store's answers and requests are written id and      *)
(* source.                                                                 *)

\* the id the store assigns to its n-th document
NewId(n) == <<ToString(n)>>

\* ES_DB.get: the set holding the hit, empty when NotFoundError is raised
ES_get(id) ==
    IF id \in DOMAIN store THEN {[id |-> id, source |-> store[id]]} ELSE {}

\* ES_DB.count with query match emailClean.keyword
ES_count(emailClean) ==
    Cardinality({id \in DOMAIN store : store[id].emailClean = emailClean})

\* an index that files every document under the first id
ES_indexFirstId(body) ==
    [id \in DOMAIN store \cup {NewId(1)} |-> IF id = NewId(1) THEN body ELSE store[id]]

\* ES_DB.index: the store after adding body under a fresh id
ES_index(body) ==
    [id \in DOMAIN store \cup {NewId(nextId + 1)} |->
        IF id \in DOMAIN store THEN store[id] ELSE body]

\* an update that creates the document when there is none
ES_updateUpsert(id, doc) ==
    [i \in DOMAIN store \cup {id} |->
        IF i # id THEN store[i]
        ELSE IF id \in DOMAIN store THEN Merge(store[id], doc) ELSE doc]

\* ES_DB.update with body {"doc": doc}: a partial update of document id; the
\* store stays as it is when there is no such document (NotFoundError)
ES_update(id, doc) ==
    IF id \in DOMAIN store THEN [store EXCEPT ![id] = Merge(@, doc)] ELSE store

\* ES_DB.delete; the store stays as it is when there is no such document
\* (NotFoundError)
ES_delete(id) == [i \in DOMAIN store \ {id} |-> store[i]]

\* the documents matching {"exists": {"field": "verifiedDate"}}
Matching == {id \in DOMAIN store : "verifiedDate" \in DOMAIN store[id]}

\* "sort": verifiedDate descending
RECURSIVE SortDesc(_)
SortDesc(ids) ==
    IF ids = {} THEN <<>>
    ELSE LET top == CHOOSE i \in ids :
                      \A j \in ids : store[j].verifiedDate <= store[i].verifiedDate
         IN <<top>> \o SortDesc(ids \ {top})

\* "aggs": the sum of debt over a set of documents
RECURSIVE SumDebt(_)
SumDebt(ids) ==
    IF ids = {} THEN 0
    ELSE LET i == CHOOSE i \in ids : TRUE
         IN store[i].debt + SumDebt(ids \ {i})

\* "_source": the projection of a document on a set of fields
SourceFilter(source, fields) ==
    [k \in DOMAIN source \cap fields |-> source[k]]

\* the window "from"/"size" of a sorted sequence of ids
Window(sorted, from, size) ==
    SubSeq(sorted, from + 1, Min(from + size, Len(sorted)))

\* ES_DB.search with the body that get_submissions builds
ES_search(body) ==
    LET page == Window(SortDesc(Matching), body.from, body.size)
    IN [hits |-> [i \in 1..Len(page) |->
                    [id |-> page[i],
                     source |-> SourceFilter(store[page[i]], body.source)]],
        total |-> Cardinality(Matching),
        aggregations |-> [total_debt |-> SumDebt(Matching)]]

----------------------------------------------------------------------------
(* Helpers of handler.py *)

\* a clean_email that takes the dots out of the whole address
clean_emailAllDots(email) ==
    LET parts == Split(Remove(Lower(email), "."), "@")
    IN Split(parts[1], "+")[1] \o <<"@">> \o parts[2]

clean_email(email) ==
    LET parts == Split(Lower(email), "@")
    IN Split(Remove(parts[1], "."), "+")[1] \o <<"@">> \o parts[2]

\* now is datetime.datetime.now(); tokenVerify and tokenDelete are the two
\* values drawn from secrets.token_urlsafe
create_submission_record(submission, now, tokenVerify, tokenDelete) ==
    [name |-> submission.name,
     firstName |-> Split(submission.name, " ")[1],
     debt |-> submission.debt,
     story |-> submission.story,
     email |-> submission.email,
     emailClean |-> clean_email(submission.email),
     createdDate |-> now,
     tokenVerify |-> tokenVerify,
     tokenDelete |-> tokenDelete]

\* a mark_verified that leaves the token in place
mark_verifiedKeepsToken(submission, now) ==
    Merge(submission, [verifiedDate |-> now])

mark_verified(submission, now) ==
    Merge(submission, [tokenVerify |-> None, verifiedDate |-> now])

\* the message send_email hands to the mail sender
Mail(submission_record, submission_id) ==
    [to |-> submission_record.email,
     verify_url |-> <<"submissions", submission_id, "verify",
                      submission_record.tokenVerify>>,
     delete_url |-> <<"submissions", submission_id, "delete",
                      submission_record.tokenDelete>>]

\* a test that takes only the empty string for false
FalsyEmptyOnly(x) == x = ""

\* "not x" for a string x that may be None
Falsy(x) == x = None \/ x = ""

\* a handler's return value
Response(statusCode, headers, body) ==
    [statusCode |-> statusCode, headers |-> headers, body |-> body]

\* an exception that leaves the handler: the invocation fails and the client
\* gets the gateway's internal error, without the handler's headers
Unhandled(exception) == Response(500, EmptyDict, [exception |-> exception])

\* the request of a handler, as the gateway builds it
Event(op, pathParameters, queryStringParameters, body) ==
    [op |-> op, pathParameters |-> pathParameters,
     queryStringParameters |-> queryStringParameters, body |-> body]

----------------------------------------------------------------------------
(* get_submissions *)

\* event.get("queryStringParameters") or {}
QueryParams(ev) ==
    IF ev.queryStringParameters = NoDict THEN EmptyDict
    ELSE CHOOSE d \in ev.queryStringParameters : TRUE

\* an include that is not cut to three ids
IncludeUncut(query_params) ==
    LET include == Get(query_params, "include")
    IN IF include = {} \/ include = {<<>>} THEN <<>>
       ELSE Split(CHOOSE v \in include : TRUE, ",")

\* include as the override loop sees it: the first three comma-separated
\* ids, or the empty sequence when include is absent or the empty string
Include(query_params) ==
    LET include == Get(query_params, "include")
    IN IF include = {} \/ include = {<<>>} THEN <<>>
       ELSE Take(Split(CHOOSE v \in include : TRUE, ","), 3)

\* a limit whose range takes in its ends
LimitInclusive(query_params) ==
    LET limit == IntOf(Get(query_params, "limit"))
    IN IF limit # {} /\ \A v \in limit : 0 <= v /\ v <= 200
       THEN CHOOSE v \in limit : TRUE
       ELSE 90

Limit(query_params) ==
    LET limit == IntOf(Get(query_params, "limit"))
    IN IF limit # {} /\ \A v \in limit : 0 < v /\ v < 200
       THEN CHOOSE v \in limit : TRUE
       ELSE 90

From(query_params) ==
    LET from_ == IntOf(Get(query_params, "from"))
    IN IF from_ # {} /\ \A v \in from_ : 0 < v /\ v < 9600
       THEN CHOOSE v \in from_ : TRUE
       ELSE 0

\* the body of the search
SearchBody(from_, limit) ==
    [query |-> [exists |-> [field |-> "verifiedDate"]],
     source |-> fields_to_output,
     sort |-> <<[verifiedDate |-> [order |-> "desc"]]>>,
     aggs |-> [total_debt |-> [sum |-> [field |-> "debt"]]],
     from |-> from_,
     size |-> limit]

\* a total taken over the hits of the page
RECURSIVE SumHits(_)
SumHits(hits) ==
    IF hits = <<>> THEN 0 ELSE Head(hits).source.debt + SumHits(Tail(hits))

TotalDebtOfPage(results) == SumHits(results.hits)

\* results["aggregations"]["total_debt"]["value"]
TotalDebt(results) == results.aggregations.total_debt

\* [submission["_source"] for submission in results["hits"]["hits"]]
PageSources(results) == [i \in 1..Len(results.hits) |-> results.hits[i].source]

\* {submission["_id"] for submission in results["hits"]["hits"]}
PageIds(results) == {results.hits[i].id : i \in 1..Len(results.hits)}

\* an override entry that keeps every field of the document
OutputAllFields(source) == source

\* {k: v for k, v in submission["_source"].items() if k in fields_to_output}
OutputFields(source) == [k \in DOMAIN source \cap fields_to_output |-> source[k]]

\* an insertion at the end of the list
InsertLast(submissions, entry) == Append(submissions, entry)

\* submissions.insert(0, entry)
InsertFront(submissions, entry) == <<entry>> \o submissions

\* whether the override loop fetches and inserts the document of an id
Overrides(submission_id, existing_submission_ids) ==
    /\ submission_id \notin existing_submission_ids
    /\ ES_get(submission_id) # {}

\* the loop over include: submissions after the remaining ids are processed
RECURSIVE OverrideLoop(_, _, _)
OverrideLoop(include, existing_submission_ids, submissions) ==
    IF include = <<>> THEN submissions
    ELSE LET submission_id == Head(include)
         IN IF Overrides(submission_id, existing_submission_ids)
            THEN LET submission == CHOOSE h \in ES_get(submission_id) : TRUE
                 IN OverrideLoop(Tail(include),
                                 existing_submission_ids \cup {submission_id},
                                 InsertFront(submissions,
                                             OutputFields(submission.source)))
            ELSE OverrideLoop(Tail(include), existing_submission_ids, submissions)

\* (each value of the handler is bound by \E to be computed once)
get_submissions(ev) ==
    \E query_params \in {QueryParams(ev)} :
    \E search \in {SearchBody(From(query_params), Limit(query_params))} :
    \E results \in {ES_search(search)} :
    \E submissions \in {OverrideLoop(Include(query_params), PageIds(results),
                                    PageSources(results))} :
       /\ esSearch' = Dict(search)
       /\ response' = Response(200, CORS_HEADERS,
                               <<[submissions |-> submissions,
                                  count_submissions |-> results.total,
                                  total_debt |-> TotalDebt(results)]>>)
       /\ UNCHANGED <<store, nextId, clock, outbox>>

----------------------------------------------------------------------------
(* post_submission and post_verified_submission *)

\* json.loads(event["body"])
Submission(ev) == CHOOSE b \in ev.body : TRUE

\* an existence check on the email as entered
DuplicateRawEmail(record) ==
    Cardinality({id \in DOMAIN store : store[id].email = record.email}) > 0

\* whether the existence check finds a story from this email address
Duplicate(record) == ES_count(record.emailClean) > 0

\* a post_submission that takes the record back when the mail sender raises
post_submissionRollback(ev, tokenVerify, tokenDelete, mailSent) ==
    LET record == create_submission_record(Submission(ev), clock,
                                           tokenVerify, tokenDelete)
        id == NewId(nextId + 1)
    IN /\ IF Duplicate(record)
          THEN /\ response' = Response(409, CORS_HEADERS,
                    [text |-> "Your story has already been submitted. Please check your email :)"])
               /\ UNCHANGED <<store, nextId, outbox>>
          ELSE /\ nextId < MaxId
               /\ nextId' = nextId + 1
               /\ IF mailSent
                  THEN /\ store' = ES_index(record)
                       /\ outbox' = outbox \cup {Mail(record, id)}
                       /\ response' = Response(200, CORS_HEADERS, [id |-> id])
                  ELSE /\ store' = store
                       /\ outbox' = outbox
                       /\ response' = Unhandled("send_email")
       /\ UNCHANGED <<clock, esSearch>>

\* tokenVerify, tokenDelete: the random tokens; mailSent: whether the mail
\* sender accepts the message (it raises otherwise).
post_submission(ev, tokenVerify, tokenDelete, mailSent) ==
    LET record == create_submission_record(Submission(ev), clock,
                                           tokenVerify, tokenDelete)
        id == NewId(nextId + 1)
    IN /\ IF Duplicate(record)
          THEN /\ response' = Response(409, CORS_HEADERS,
                    [text |-> "Your story has already been submitted. Please check your email :)"])
               /\ UNCHANGED <<store, nextId, outbox>>
          ELSE /\ nextId < MaxId
               /\ store' = ES_index(record)
               /\ nextId' = nextId + 1
               /\ IF mailSent
                  THEN /\ outbox' = outbox \cup {Mail(record, id)}
                       /\ response' = Response(200, CORS_HEADERS, [id |-> id])
                  ELSE /\ outbox' = outbox
                       /\ response' = Unhandled("send_email")
       /\ UNCHANGED <<clock, esSearch>>

post_verified_submission(ev, tokenVerify, tokenDelete) ==
    LET record == create_submission_record(Submission(ev), clock,
                                           tokenVerify, tokenDelete)
        verified_record == mark_verified(record, clock)
        id == NewId(nextId + 1)
    IN /\ nextId < MaxId
       /\ store' = ES_index(verified_record)
       /\ nextId' = nextId + 1
       /\ clock' = clock + 1
       /\ response' = Response(200, CORS_HEADERS, [id |-> id])
       /\ UNCHANGED <<outbox, esSearch>>

----------------------------------------------------------------------------
(* verify_submission and delete_submission *)

\* the redirect target f"{UI_HOST}?verified={submission_id}"
RedirectUrl(submission_id) == <<UI_HOST, "?verified=", submission_id>>

\* a comparison that lets every token pass
MismatchNever(token, stored_token) == FALSE

\* whether the presented token fails the comparison with the stored one
Mismatch(token, stored_token) == token # stored_token

\* a verify that sets verifiedDate and leaves the token in place
VerifyDocKeepsToken(now) == [verifiedDate |-> now]

\* the partial document verify_submission writes
VerifyDoc(now) == [tokenVerify |-> None, verifiedDate |-> now]

verify_submission(ev) ==
    LET submission_id == (CHOOSE d \in ev.pathParameters : TRUE).submissionId
        query == ev.queryStringParameters
        token == Get(CHOOSE d \in query : TRUE, "token")
        submission == ES_get(submission_id)
        verify_token == (CHOOSE h \in submission : TRUE).source.tokenVerify
    IN /\ UNCHANGED <<nextId, outbox, esSearch>>
       /\ IF submission_id = <<>>
          THEN /\ response' = Response(400, CORS_HEADERS, [text |-> "Submission id missing"])
               /\ UNCHANGED <<store, clock>>
          ELSE IF query = NoDict
          THEN /\ response' = Unhandled("AttributeError")
               /\ UNCHANGED <<store, clock>>
          ELSE IF token = {} \/ token = {""}
          THEN /\ response' = Response(400, CORS_HEADERS, [text |-> "Token missing"])
               /\ UNCHANGED <<store, clock>>
          ELSE IF submission = {}
          THEN /\ response' = Response(404, CORS_HEADERS, [text |-> "Story not found"])
               /\ UNCHANGED <<store, clock>>
          ELSE IF Falsy(verify_token)
          THEN /\ response' = Response(302,
                    Merge(CORS_HEADERS, [Location |-> RedirectUrl(submission_id)]),
                    [text |-> "Your story has already been verified! Thank you :)"])
               /\ UNCHANGED <<store, clock>>
          ELSE IF Mismatch(CHOOSE t \in token : TRUE, verify_token)
          THEN /\ response' = Response(403, CORS_HEADERS,
                    [text |-> "Token did not match", token |-> CHOOSE t \in token : TRUE])
               /\ UNCHANGED <<store, clock>>
          ELSE /\ store' = ES_update(submission_id, VerifyDoc(clock))
               /\ clock' = clock + 1
               /\ response' = Response(302,
                    Merge(CORS_HEADERS, [Location |-> RedirectUrl(submission_id)]),
                    [text |-> "Your story has been verified! Thank you :)"])

delete_submission(ev) ==
    LET submission_id == (CHOOSE d \in ev.pathParameters : TRUE).submissionId
        query == ev.queryStringParameters
        token == Get(CHOOSE d \in query : TRUE, "token")
        submission == ES_get(submission_id)
        delete_token == (CHOOSE h \in submission : TRUE).source.tokenDelete
    IN /\ UNCHANGED <<nextId, clock, outbox, esSearch>>
       /\ IF submission_id = <<>>
          THEN /\ response' = Response(400, CORS_HEADERS, [text |-> "Submission id missing"])
               /\ UNCHANGED store
          ELSE IF query = NoDict
          THEN /\ response' = Unhandled("AttributeError")
               /\ UNCHANGED store
          ELSE IF token = {} \/ token = {""}
          THEN /\ response' = Response(400, CORS_HEADERS, [text |-> "Token missing"])
               /\ UNCHANGED store
          ELSE IF submission = {}
          THEN /\ response' = Response(404, CORS_HEADERS,
                    [text |-> "Story not found. Perhaps it has already been deleted!"])
               /\ UNCHANGED store
          ELSE IF Falsy(delete_token)
          THEN /\ response' = Response(200, CORS_HEADERS,
                    [text |-> "Your story has already been deleted! Thank you :)"])
               /\ UNCHANGED store
          ELSE IF Mismatch(CHOOSE t \in token : TRUE, delete_token)
          THEN /\ response' = Response(403, CORS_HEADERS,
                    [text |-> "Token did not match", token |-> CHOOSE t \in token : TRUE])
               /\ UNCHANGED store
          ELSE /\ store' = ES_delete(submission_id)
               /\ response' = Response(200, CORS_HEADERS,
                    [text |-> "Your story has been deleted!"])

----------------------------------------------------------------------------
(* The handlers step by step, for invocations that overlap: a step ends     *)
(* with a request to the store, and an invocation that returns sets event   *)
(* and response.                                                            *)

Calls == 1..MaxCalls

\* no invocation
Idle == [pc |-> "idle", event |-> Event("none", NoDict, NoDict, NoDict),
         record |-> NoDict]

\* an invocation of the handler of ev that has reached pc and holds record
Call(pc, ev, record) == [pc |-> pc, event |-> ev, record |-> record]

\* the invocation p returns response
Return(p, ev, resp) ==
    /\ event' = ev
    /\ response' = resp
    /\ calls' = [calls EXCEPT ![p] = Idle]

\* post_submission up to the existence count (lines 182-196)
post_submission_count(p, ev, tokenVerify, tokenDelete) ==
    LET record == create_submission_record(Submission(ev), clock,
                                           tokenVerify, tokenDelete)
    IN /\ IF Duplicate(record)
          THEN Return(p, ev, Response(409, CORS_HEADERS,
                    [text |-> "Your story has already been submitted. Please check your email :)"]))
          ELSE /\ calls' = [calls EXCEPT ![p] = Call("index", ev, Dict(record))]
               /\ UNCHANGED <<event, response>>
       /\ UNCHANGED <<store, nextId, clock, outbox, esSearch>>

\* a post_submission that counts again when it creates the record
post_submission_indexChecked(p) ==
    LET record == CHOOSE r \in calls[p].record : TRUE
        id == NewId(nextId + 1)
    IN /\ calls[p].pc = "index"
       /\ nextId < MaxId
       /\ IF Duplicate(record)
          THEN /\ Return(p, calls[p].event, Response(409, CORS_HEADERS,
                    [text |-> "Your story has already been submitted. Please check your email :)"]))
               /\ UNCHANGED <<store, nextId, outbox>>
          ELSE /\ store' = ES_index(record)
               /\ nextId' = nextId + 1
               /\ outbox' = outbox \cup {Mail(record, id)}
               /\ Return(p, calls[p].event, Response(200, CORS_HEADERS, [id |-> id]))
       /\ UNCHANGED <<clock, esSearch>>

\* post_submission from ES_DB.index to its return (lines 198-206)
post_submission_index(p) ==
    LET record == CHOOSE r \in calls[p].record : TRUE
        id == NewId(nextId + 1)
    IN /\ calls[p].pc = "index"
       /\ nextId < MaxId
       /\ store' = ES_index(record)
       /\ nextId' = nextId + 1
       /\ outbox' = outbox \cup {Mail(record, id)}
       /\ Return(p, calls[p].event, Response(200, CORS_HEADERS, [id |-> id]))
       /\ UNCHANGED <<clock, esSearch>>

\* the answers with which verify_submission returns before its update
\* (lines 223-259): the empty set when it goes on to the update
verify_submission_early(ev) ==
    LET submission_id == (CHOOSE d \in ev.pathParameters : TRUE).submissionId
        query == ev.queryStringParameters
        token == Get(CHOOSE d \in query : TRUE, "token")
        submission == ES_get(submission_id)
        verify_token == (CHOOSE h \in submission : TRUE).source.tokenVerify
    IN IF submission_id = <<>>
       THEN {Response(400, CORS_HEADERS, [text |-> "Submission id missing"])}
       ELSE IF query = NoDict
       THEN {Unhandled("AttributeError")}
       ELSE IF token = {} \/ token = {""}
       THEN {Response(400, CORS_HEADERS, [text |-> "Token missing"])}
       ELSE IF submission = {}
       THEN {Response(404, CORS_HEADERS, [text |-> "Story not found"])}
       ELSE IF Falsy(verify_token)
       THEN {Response(302,
                Merge(CORS_HEADERS, [Location |-> RedirectUrl(submission_id)]),
                [text |-> "Your story has already been verified! Thank you :)"])}
       ELSE IF Mismatch(CHOOSE t \in token : TRUE, verify_token)
       THEN {Response(403, CORS_HEADERS,
                [text |-> "Token did not match", token |-> CHOOSE t \in token : TRUE])}
       ELSE {}

\* verify_submission up to the token comparison
verify_submission_get(p, ev) ==
    /\ IF verify_submission_early(ev) # {}
       THEN Return(p, ev, CHOOSE r \in verify_submission_early(ev) : TRUE)
       ELSE /\ calls' = [calls EXCEPT ![p] = Call("update", ev, NoDict)]
            /\ UNCHANGED <<event, response>>
    /\ UNCHANGED <<store, nextId, clock, outbox, esSearch>>

\* verify_submission from ES_DB.update to its return (lines 261-278)
verify_submission_update(p) ==
    LET ev == calls[p].event
        submission_id == (CHOOSE d \in ev.pathParameters : TRUE).submissionId
    IN /\ calls[p].pc = "update"
       /\ store' = ES_update(submission_id, VerifyDoc(clock))
       /\ IF submission_id \in DOMAIN store'
          THEN /\ clock' = clock + 1
               /\ Return(p, ev, Response(302,
                    Merge(CORS_HEADERS, [Location |-> RedirectUrl(submission_id)]),
                    [text |-> "Your story has been verified! Thank you :)"]))
          ELSE /\ clock' = clock
               /\ Return(p, ev, Unhandled("NotFoundError"))
       /\ UNCHANGED <<nextId, outbox, esSearch>>

\* the answers with which delete_submission returns before its delete
\* (lines 282-316): the empty set when it goes on to the delete
delete_submission_early(ev) ==
    LET submission_id == (CHOOSE d \in ev.pathParameters : TRUE).submissionId
        query == ev.queryStringParameters
        token == Get(CHOOSE d \in query : TRUE, "token")
        submission == ES_get(submission_id)
        delete_token == (CHOOSE h \in submission : TRUE).source.tokenDelete
    IN IF submission_id = <<>>
       THEN {Response(400, CORS_HEADERS, [text |-> "Submission id missing"])}
       ELSE IF query = NoDict
       THEN {Unhandled("AttributeError")}
       ELSE IF token = {} \/ token = {""}
       THEN {Response(400, CORS_HEADERS, [text |-> "Token missing"])}
       ELSE IF submission = {}
       THEN {Response(404, CORS_HEADERS,
                [text |-> "Story not found. Perhaps it has already been deleted!"])}
       ELSE IF Falsy(delete_token)
       THEN {Response(200, CORS_HEADERS,
                [text |-> "Your story has already been deleted! Thank you :)"])}
       ELSE IF Mismatch(CHOOSE t \in token : TRUE, delete_token)
       THEN {Response(403, CORS_HEADERS,
                [text |-> "Token did not match", token |-> CHOOSE t \in token : TRUE])}
       ELSE {}

\* delete_submission up to the token comparison
delete_submission_get(p, ev) ==
    /\ IF delete_submission_early(ev) # {}
       THEN Return(p, ev, CHOOSE r \in delete_submission_early(ev) : TRUE)
       ELSE /\ calls' = [calls EXCEPT ![p] = Call("delete", ev, NoDict)]
            /\ UNCHANGED <<event, response>>
    /\ UNCHANGED <<store, nextId, clock, outbox, esSearch>>

\* delete_submission from ES_DB.delete to its return (lines 318-324)
delete_submission_delete(p) ==
    LET ev == calls[p].event
        submission_id == (CHOOSE d \in ev.pathParameters : TRUE).submissionId
    IN /\ calls[p].pc = "delete"
       /\ store' = ES_delete(submission_id)
       /\ IF submission_id \in DOMAIN store
          THEN Return(p, ev, Response(200, CORS_HEADERS,
                    [text |-> "Your story has been deleted!"]))
          ELSE Return(p, ev, Unhandled("NotFoundError"))
       /\ UNCHANGED <<nextId, clock, outbox, esSearch>>

----------------------------------------------------------------------------
(* The requests the model sends *)

\* request bodies: the first two emails have the same clean_email
Submissions ==
    {[name |-> <<"J", "o", " ", "D">>, debt |-> 1, story |-> "s1",
      email |-> <<"A", ".", "b", "+", "x", "@", "D", ".", "c">>],
     [name |-> <<"A", "b">>, debt |-> 2, story |-> "s2",
      email |-> <<"a", "b", "@", "d", ".", "c">>],
     [name |-> <<"C", " ", "D">>, debt |-> 4, story |-> "s3",
      email |-> <<"c", "@", "d", ".", "c">>]}

\* the request bodies sent between listing requests
ListSubmissions == {s \in Submissions : s.debt # 2}

\* the one of them that is posted for verification by mail
ListPending == {s \in ListSubmissions : s.debt = 1}

\* the values secrets.token_urlsafe may return
Tokens == {"t1", "t2"}

\* the tokens of a new record, tokenVerify first
TokenPairs == {<<"t1", "t2">>}

\* the ids the store assigns
StoreIds == {NewId(n) : n \in 1..MaxId}

\* the path and query of a verify or delete request: an id with a token, or
\* the empty id
TokenRequests ==
    {<<id, Dict([token |-> t])>> : id \in StoreIds, t \in Tokens}
    \cup {<<<<>>, Dict([token |-> "t1"])>>}

\* the verify and the delete requests sent between listing requests
ListVerifies == {<<id, Dict([token |-> "t1"])>> : id \in StoreIds}

ListDeletes == {<<id, Dict([token |-> "t2"])>> : id \in StoreIds}

\* local parts of at most two characters, and two domains with a dot
Locals ==
    LET chars == {"b", "B", ".", "+"}
    IN {<<>>} \cup {<<c>> : c \in chars} \cup {<<c, d>> : c, d \in chars}

Domains == {<<"D", ".", "c">>, <<"d", ".", "c">>}

\* emails with exactly one "@"
Emails ==
    {local \o <<"@">> \o domain : local \in Locals, domain \in Domains}
    \cup {<<"A", ".", "B", "+", "x", "@", "D", ".", "c", "o", "m">>,
          <<"a", "b", "@", "d", ".", "c", "o", "m">>}

\* request bodies with these emails
CleanSubmissions ==
    {[name |-> <<"A">>, debt |-> 1, story |-> "s", email |-> email] : email \in Emails}

\* the query of a request that presents no token: null, no token entry, or
\* an empty token
MissingQueries == {NoDict, Dict(EmptyDict), Dict([token |-> ""])}

\* verify and delete requests for an id without a token
MissingRequests == {<<id, query>> : id \in StoreIds, query \in MissingQueries}

\* values of limit and from
LimitValues ==
    {<<"0">>, <<"1">>, <<"1", "9", "9">>, <<"2", "0", "0">>, <<"5", "0", "0">>,
     <<"-", "1">>, <<"x">>}

FromValues ==
    {<<"1">>, <<"9", "5", "9", "9">>, <<"9", "6", "0", "0">>, <<"-", "1">>, <<"x">>}

\* ",".join(ids)
RECURSIVE Join(_)
Join(ids) ==
    IF ids = <<>> THEN <<>>
    ELSE IF Len(ids) = 1 THEN ids[1]
    ELSE ids[1] \o <<",">> \o Join(Tail(ids))

\* the ids an include names: two ids of the store and one it never assigns
IncludeIds == {<<"1">>, <<"2">>, <<"x">>}

\* values of include: the empty string, every id, the pairs of ids that
\* name record 1, and the lists of four ids that repeat the first one three
\* times and end in another
IncludeValues ==
    {Join(ids) : ids \in {<<>>} \cup {<<a>> : a \in IncludeIds}
                         \cup {<<a, b>> \in IncludeIds \X IncludeIds :
                                 <<"1">> \in {a, b}}
                         \cup {<<p[1], p[1], p[1], p[2]>> :
                                 p \in {q \in IncludeIds \X IncludeIds : q[1] # q[2]}}}

\* the windows an include is combined with
WindowQueries == {EmptyDict, [limit |-> <<"1">>, from |-> <<"1">>]}

\* the queries of a listing request
ListQueries ==
    {NoDict}
    \cup {Dict([limit |-> l]) : l \in LimitValues}
    \cup {Dict([from |-> f]) : f \in FromValues}
    \cup {Dict(Merge(w, [include |-> i])) : w \in WindowQueries, i \in IncludeValues}

\* the listing request sent between the requests that write
ProbeQueries == {NoDict}

----------------------------------------------------------------------------
(* The state machine *)

Init ==
    /\ store = EmptyDict
    /\ nextId = 0
    /\ clock = 1
    /\ outbox = {}
    /\ event = Event("none", NoDict, NoDict, NoDict)
    /\ esSearch = NoDict
    /\ response = Response(0, EmptyDict, EmptyDict)
    /\ calls = [p \in Calls |-> Idle]

\* Each action takes a request, which becomes event, and runs its handler
\* from its first line to its return.
GetSubmissions(queries) ==
    /\ event' \in {Event("get_submissions", NoDict, query, NoDict) :
                     query \in queries}
    /\ get_submissions(event')
    /\ UNCHANGED calls

PostSubmission(submissions, tokens) ==
    /\ event' \in {Event("post_submission", NoDict, NoDict, Dict(submission)) :
                     submission \in submissions}
    /\ \E pair \in tokens : post_submission(event', pair[1], pair[2], TRUE)
    /\ UNCHANGED calls

\* post_submission with a mail sender that raises
PostSubmissionMailFails(submissions, tokens) ==
    /\ event' \in {Event("post_submission", NoDict, NoDict, Dict(submission)) :
                     submission \in submissions}
    /\ \E pair \in tokens : post_submission(event', pair[1], pair[2], FALSE)
    /\ UNCHANGED calls

PostVerifiedSubmission(submissions, tokens) ==
    /\ event' \in {Event("post_verified_submission", NoDict, NoDict, Dict(submission)) :
                     submission \in submissions}
    /\ \E pair \in tokens : post_verified_submission(event', pair[1], pair[2])
    /\ UNCHANGED calls

VerifySubmission(requests) ==
    /\ event' \in {Event("verify_submission", Dict([submissionId |-> r[1]]), r[2], NoDict) :
                     r \in requests}
    /\ verify_submission(event')
    /\ UNCHANGED calls

DeleteSubmission(requests) ==
    /\ event' \in {Event("delete_submission", Dict([submissionId |-> r[1]]), r[2], NoDict) :
                     r \in requests}
    /\ delete_submission(event')
    /\ UNCHANGED calls

\* the requests one after the other, with every token
Next ==
    \/ GetSubmissions(ProbeQueries)
    \/ PostSubmission(Submissions, TokenPairs)
    \/ PostVerifiedSubmission(Submissions, TokenPairs)
    \/ VerifySubmission(TokenRequests)
    \/ DeleteSubmission(TokenRequests)

Spec == Init /\ [][Next]_vars

\* the requests one after the other, with every listing query
ListNext ==
    \/ GetSubmissions(ListQueries)
    \/ PostSubmission(ListPending, TokenPairs)
    \/ PostVerifiedSubmission(ListSubmissions, TokenPairs)
    \/ VerifySubmission(ListVerifies)
    \/ DeleteSubmission(ListDeletes)

ListSpec == Init /\ [][ListNext]_vars

\* verify and delete requests without a token, between posts and deletes
MissingNext ==
    \/ PostSubmission(ListSubmissions, TokenPairs)
    \/ VerifySubmission(MissingRequests)
    \/ DeleteSubmission(MissingRequests \cup ListDeletes)

MissingSpec == Init /\ [][MissingNext]_vars

\* the request bodies of invocations that overlap: two whose emails have the
\* same clean_email
ConcSubmissions == {s \in Submissions : s.debt # 4}

\* the verify and delete requests of invocations that overlap: those for the
\* first record, with its tokens
ConcVerifies == {<<NewId(1), Dict([token |-> "t1"])>>}

ConcDeletes == {<<NewId(1), Dict([token |-> "t2"])>>}

\* the first invocation that is free, if any
FreeCall == {p \in Calls : calls[p] = Idle /\ \A q \in 1..(p - 1) : calls[q] # Idle}

\* An invocation starts when a request arrives and runs to its first request
\* to the store; each further step takes it to its return.
StartPostSubmission(submissions, tokens) ==
    /\ FreeCall # {}
    /\ \E p \in FreeCall, submission \in submissions, pair \in tokens :
          post_submission_count(p, Event("post_submission", NoDict, NoDict,
                                         Dict(submission)), pair[1], pair[2])

PostSubmissionIndex ==
    /\ FreeCall # Calls
    /\ \E p \in Calls : post_submission_index(p)

StartVerifySubmission(requests) ==
    /\ FreeCall # {}
    /\ \E p \in FreeCall, r \in requests :
          verify_submission_get(p, Event("verify_submission",
                                         Dict([submissionId |-> r[1]]), r[2], NoDict))

VerifySubmissionUpdate ==
    /\ FreeCall # Calls
    /\ \E p \in Calls : verify_submission_update(p)

StartDeleteSubmission(requests) ==
    /\ FreeCall # {}
    /\ \E p \in FreeCall, r \in requests :
          delete_submission_get(p, Event("delete_submission",
                                         Dict([submissionId |-> r[1]]), r[2], NoDict))

DeleteSubmissionDelete ==
    /\ FreeCall # Calls
    /\ \E p \in Calls : delete_submission_delete(p)

\* invocations that overlap, each with its correct token
ConcNext ==
    \/ StartPostSubmission(ConcSubmissions, TokenPairs)
    \/ PostSubmissionIndex
    \/ PostVerifiedSubmission(ListSubmissions \ ConcSubmissions, TokenPairs)
    \/ StartVerifySubmission(ConcVerifies)
    \/ VerifySubmissionUpdate
    \/ StartDeleteSubmission(ConcDeletes)
    \/ DeleteSubmissionDelete

ConcSpec == Init /\ [][ConcNext]_vars

\* posts with a mail sender that accepts or raises, and deletes
FaultNext ==
    \/ PostSubmission(Submissions, TokenPairs)
    \/ PostSubmissionMailFails(Submissions, TokenPairs)
    \/ DeleteSubmission(ListDeletes)

FaultSpec == Init /\ [][FaultNext]_vars

\* records created from every email
CleanNext == PostVerifiedSubmission(CleanSubmissions, TokenPairs)

CleanSpec == Init /\ [][CleanNext]_vars

----------------------------------------------------------------------------
(* What a state says about the request handled last *)

\* the submission id and the token of a verify or delete request
RequestId == (CHOOSE d \in event.pathParameters : TRUE).submissionId

RequestToken == (CHOOSE d \in event.queryStringParameters : TRUE).token

\* the request was a verify (delete) request with an id and a token
TokenRequest(op) ==
    /\ event.op = op
    /\ RequestId # <<>>
    /\ event.queryStringParameters # NoDict
    /\ Get(CHOOSE d \in event.queryStringParameters : TRUE, "token") \notin {{}, {""}}

\* the verify token the mail sender carried for a record
MailedVerify(id, token) ==
    \E mail \in outbox : mail.verify_url = <<"submissions", id, "verify", token>>

Pending(record) ==
    /\ record.tokenVerify \notin {None, ""}
    /\ "verifiedDate" \notin DOMAIN record

Verified(record) ==
    /\ record.tokenVerify = None
    /\ "verifiedDate" \in DOMAIN record

----------------------------------------------------------------------------
(* Token lifecycle *)

\* C1, first request: a verify request that presents the stored tokenVerify of
\* a pending record sets tokenVerify to null, sets verifiedDate and answers
\* 302 with Location UI_HOST?verified=<id>.
C1_FirstVerify ==
    (/\ TokenRequest("verify_submission")'
     /\ RequestId' \in DOMAIN store
     /\ Pending(store[RequestId'])
     /\ RequestToken' = store[RequestId'].tokenVerify)
    => (/\ RequestId' \in DOMAIN store'
        /\ Verified(store'[RequestId'])
        /\ response'.statusCode = 302
        /\ response'.headers.Location = <<UI_HOST, "?verified=", RequestId'>>
        /\ response'.body.text = "Your story has been verified! Thank you :)")

\* C1, second request: a verify request that presents the token a record was
\* verified with (the one mailed for it) answers 302 "already verified" and
\* leaves the store as it was.
C1_SecondVerify ==
    (/\ TokenRequest("verify_submission")'
     /\ RequestId' \in DOMAIN store
     /\ Verified(store[RequestId'])
     /\ MailedVerify(RequestId', RequestToken'))
    => (/\ response'.statusCode = 302
        /\ response'.headers.Location = <<UI_HOST, "?verified=", RequestId'>>
        /\ response'.body.text = "Your story has already been verified! Thank you :)"
        /\ store' = store)

\* C1: presenting the correct verify token once verifies the record and nulls
\* the token; presenting it a second time answers the idempotent "already
\* verified" redirect and changes nothing in the store.
C1_VerifyOnce == [][C1_FirstVerify /\ C1_SecondVerify]_vars

\* C1 witness: the second presentation of the mailed token has been answered.
C1_Witness ==
    /\ TokenRequest("verify_submission")
    /\ RequestId \in DOMAIN store
    /\ Verified(store[RequestId])
    /\ MailedVerify(RequestId, RequestToken)
    /\ response.statusCode = 302
    /\ response.body.text = "Your story has already been verified! Thank you :)"

\* the stored token of a record for the action of a request
StoredToken(op, record) ==
    IF op = "verify_submission" THEN record.tokenVerify ELSE record.tokenDelete

\* C2: a verify or delete request whose token differs from the record's
\* non-null stored token for that action is answered 403 and changes neither
\* the record nor anything else in the store.
C2_WrongToken ==
    [][\A op \in {"verify_submission", "delete_submission"} :
        (/\ TokenRequest(op)'
         /\ RequestId' \in DOMAIN store
         /\ StoredToken(op, store[RequestId']) \notin {None, ""}
         /\ RequestToken' # StoredToken(op, store[RequestId']))
        => (/\ response'.statusCode = 403
            /\ store' = store
            /\ outbox' = outbox)]_vars

\* C2 witness: a delete request with the record's verify token was refused.
C2_Witness ==
    /\ TokenRequest("delete_submission")
    /\ RequestId \in DOMAIN store
    /\ RequestToken # store[RequestId].tokenDelete
    /\ Pending(store[RequestId])
    /\ RequestToken = store[RequestId].tokenVerify
    /\ response.statusCode = 403

\* C3 as claimed: after a delete request succeeded, the same request sent
\* again finds no record under the id and is answered 200.
C3_SecondDelete ==
    [][(/\ TokenRequest("delete_submission")
        /\ response.statusCode = 200
        /\ response.body.text = "Your story has been deleted!"
        /\ event' = event)
       => (/\ ES_get(RequestId) = {}
           /\ response'.statusCode = 200)]_vars

----------------------------------------------------------------------------
(* Duplicate submissions *)

\* the email of a post request
RequestEmail == (CHOOSE b \in event.body : TRUE).email

\* the records whose emailClean is the clean_email of an email
SameCleanEmail(email) ==
    {id \in DOMAIN store : store[id].emailClean = clean_email(email)}

\* C4: a post_submission request whose email has the clean_email of no record
\* creates exactly one record and is answered 200; one whose email has the
\* clean_email of a record (as the second of two such requests has) is
\* answered 409, creates no record and sends no mail.
C4_SecondIsConflict ==
    [][event'.op = "post_submission" =>
        IF SameCleanEmail(RequestEmail') = {}
        THEN /\ Cardinality(DOMAIN store' \ DOMAIN store) = 1
             /\ \A id \in DOMAIN store : id \in DOMAIN store' /\ store'[id] = store[id]
             /\ \A id \in DOMAIN store' \ DOMAIN store :
                   store'[id].emailClean = clean_email(RequestEmail')
             /\ response'.statusCode = 200
        ELSE /\ response'.statusCode = 409
             /\ store' = store
             /\ nextId' = nextId
             /\ outbox' = outbox]_vars

\* C4 witness: the second of two post_submission requests, with an email that
\* differs from the stored one and cleans to the same value, was answered 409.
C4_Witness ==
    /\ event.op = "post_submission"
    /\ response.statusCode = 409
    /\ nextId = 1
    /\ Cardinality(outbox) = 1
    /\ \E id \in DOMAIN store :
          /\ store[id].email # RequestEmail
          /\ store[id].emailClean = clean_email(RequestEmail)

\* C5 as claimed: no two records of the store carry the same emailClean.
C5_UniqueEmailClean ==
    \A id1, id2 \in DOMAIN store :
        store[id1].emailClean = store[id2].emailClean => id1 = id2

----------------------------------------------------------------------------
(* Listing *)

\* the query and the answer of a listing request
ListQuery == QueryParams(event)

Listed == response.body[1].submissions

\* the search a listing request sent, answered by the store once more
ListResults == ES_search(CHOOSE b \in esSearch : TRUE)

\* the four public fields of a record
Public(record) ==
    [k \in DOMAIN record \cap {"firstName", "debt", "story", "verifiedDate"} |->
        record[k]]

\* C6 as claimed: every entry of a listing is the public part of a stored
\* record that has verifiedDate.
C6_OnlyVerifiedListed ==
    event.op = "get_submissions" =>
        \A i \in 1..Len(Listed) :
            \E id \in DOMAIN store :
                /\ "verifiedDate" \in DOMAIN store[id]
                /\ Listed[i] = Public(store[id])

\* C7: every entry of a listing, from the page or from include, has no keys
\* but firstName, debt, story and verifiedDate.
C7_OnlyPublicFields ==
    event.op = "get_submissions" =>
        \A i \in 1..Len(Listed) :
            /\ DOMAIN Listed[i] \subseteq {"firstName", "debt", "story", "verifiedDate"}
            /\ DOMAIN Listed[i] \cap {"email", "emailClean", "name", "createdDate",
                                      "tokenVerify", "tokenDelete"} = {}

\* C7 witness: a listing holds an entry from include before an entry of the
\* page.
C7_Witness ==
    /\ event.op = "get_submissions"
    /\ "include" \in DOMAIN ListQuery
    /\ Len(ListResults.hits) >= 1
    /\ Len(Listed) > Len(ListResults.hits)

\* the sum of debt over the verified ones of the first n records created
RECURSIVE VerifiedDebt(_)
VerifiedDebt(n) ==
    IF n = 0 THEN 0
    ELSE VerifiedDebt(n - 1)
         + (IF NewId(n) \in DOMAIN store /\ "verifiedDate" \in DOMAIN store[NewId(n)]
            THEN store[NewId(n)].debt ELSE 0)

\* C8: total_debt of a listing is the sum of debt over all records that have
\* verifiedDate, whatever limit, from and include are.
C8_TotalDebt ==
    event.op = "get_submissions" =>
        response.body[1].total_debt = VerifiedDebt(nextId)

\* C8 witness: a listing whose page leaves out a verified record with a debt.
C8_Witness ==
    /\ event.op = "get_submissions"
    /\ Len(ListResults.hits) >= 1
    /\ Len(ListResults.hits) < ListResults.total
    /\ response.body[1].total_debt > 0

\* the ids an include names in its first three places
FirstThree ==
    IF "include" \notin DOMAIN ListQuery THEN {}
    ELSE LET ids == Split(ListQuery.include, ",")
         IN {ids[i] : i \in 1..Len(ids) \cap 1..3}

\* the ids whose records a listing adds to the page
Expected == {id \in FirstThree : id \in DOMAIN store /\ id \notin PageIds(ListResults)}

\* C9: the entries a listing adds to the page are the records of the ids
\* among the first three of include that exist and are not in the page, one
\* entry for each; the request is answered 200.
C9_Overrides ==
    event.op = "get_submissions" =>
        LET added == Len(Listed) - Len(ListResults.hits)
        IN /\ response.statusCode = 200
           /\ added = Cardinality(Expected)
           /\ {Listed[i] : i \in 1..added} = {Public(store[id]) : id \in Expected}
           /\ Cardinality({Listed[i] : i \in 1..added}) = added
           /\ SubSeq(Listed, added + 1, Len(Listed)) = PageSources(ListResults)

\* C9 witness: include names four ids; the fourth, a record outside the page
\* and not among the first three, is left out, and a record is added.
C9_Witness ==
    /\ event.op = "get_submissions"
    /\ "include" \in DOMAIN ListQuery
    /\ LET ids == Split(ListQuery.include, ",")
       IN /\ Len(ids) = 4
          /\ ids[4] \in DOMAIN store
          /\ ids[4] \notin PageIds(ListResults) \cup FirstThree
    /\ Len(Listed) = Len(ListResults.hits) + 1

\* the value a parameter parses to, if it is in the open range (0, max)
InRange(query, key, max) ==
    {v \in IntOf(Get(query, key)) : 0 < v /\ v < max}

\* C10: the search uses limit if it is an integer v with 0 < v < 200 and 90
\* otherwise, from if it is an integer v with 0 < v < 9600 and 0 otherwise, and
\* the request is answered 200.
C10_Pagination ==
    event.op = "get_submissions" =>
        LET search == CHOOSE b \in esSearch : TRUE
        IN /\ response.statusCode = 200
           /\ IF InRange(ListQuery, "limit", 200) # {}
              THEN search.size \in InRange(ListQuery, "limit", 200)
              ELSE search.size = 90
           /\ IF InRange(ListQuery, "from", 9600) # {}
              THEN search.from \in InRange(ListQuery, "from", 9600)
              ELSE search.from = 0

\* C10 witness: limit=500 was answered with the default page size.
C10_Witness ==
    /\ event.op = "get_submissions"
    /\ Get(ListQuery, "limit") = {<<"5", "0", "0">>}
    /\ (CHOOSE b \in esSearch : TRUE).size = 90
    /\ Len(Listed) = 2

----------------------------------------------------------------------------
(* The verified state of a record *)

\* C11: in every step, a record that stays in the store and had tokenVerify
\* null still has it null, and one that had verifiedDate still has it; so no
\* step gives an existing record a non-null tokenVerify again.
C11_VerifiedStays ==
    [][\A id \in DOMAIN store \cap DOMAIN store' :
          /\ store[id].tokenVerify = None => store'[id].tokenVerify = None
          /\ "verifiedDate" \in DOMAIN store[id] => "verifiedDate" \in DOMAIN store'[id]]_vars

\* C11 witness: a record verified by the mailed token is still verified after
\* a post_submission request with its email was answered.
C11_Witness ==
    /\ event.op = "post_submission"
    /\ \E id \in DOMAIN store :
          /\ Verified(store[id])
          /\ MailedVerify(id, "t1")
          /\ store[id].email = RequestEmail
    /\ nextId = MaxId

----------------------------------------------------------------------------
(* Email normalisation *)

\* the place of the "@" of an email, its local part and its domain part
AtIndex(email) == CHOOSE i \in 1..Len(email) : email[i] = "@"

LocalPart(email) == SubSeq(email, 1, AtIndex(email) - 1)

DomainPart(email) == SubSeq(email, AtIndex(email) + 1, Len(email))

\* two characters that are the same letter in either case
SameLetter(c, d) ==
    c = d \/ {c, d} \in {{"a", "A"}, {"b", "B"}, {"c", "C"}, {"d", "D"}}

\* e1 and e2 differ in letter case only
CaseAlias(e1, e2) ==
    /\ Len(e1) = Len(e2)
    /\ \A i \in 1..Len(e1) : SameLetter(e1[i], e2[i])

\* e2 is e1 without one of the dots of its local part
DotAlias(e1, e2) ==
    \E i \in 1..(AtIndex(e1) - 1) :
        /\ e1[i] = "."
        /\ e2 = SubSeq(e1, 1, i - 1) \o SubSeq(e1, i + 1, Len(e1))

\* e2 is e1 without a "+suffix" at the end of its local part
SuffixAlias(e1, e2) ==
    \E i \in 1..(AtIndex(e1) - 1) :
        /\ e1[i] = "+"
        /\ e2 = SubSeq(e1, 1, i - 1) \o SubSeq(e1, AtIndex(e1), Len(e1))

Alias(e1, e2) == CaseAlias(e1, e2) \/ DotAlias(e1, e2) \/ SuffixAlias(e1, e2)

\* the places of the dots of a string
Dots(part) == {i \in 1..Len(part) : part[i] = "."}

\* C12: on the emailClean that a record got from clean_email: cleaning it
\* again gives the same value; its domain part has its dots where the email's
\* domain part has them; two records whose emails differ only in letter case,
\* in one dot of the local part or in a +suffix of the local part have the
\* same emailClean; and 'A.B+x@D.com' gives 'ab@d.com'.
C12_CleanEmail ==
    /\ \A id \in DOMAIN store :
          /\ clean_email(store[id].emailClean) = store[id].emailClean
          /\ Dots(DomainPart(store[id].emailClean)) = Dots(DomainPart(store[id].email))
          /\ store[id].email = <<"A", ".", "B", "+", "x", "@", "D", ".", "c", "o", "m">>
                => store[id].emailClean = <<"a", "b", "@", "d", ".", "c", "o", "m">>
    /\ \A id1, id2 \in DOMAIN store :
          Alias(store[id1].email, store[id2].email)
             => store[id1].emailClean = store[id2].emailClean

\* C12 witness: the records of 'A.B+x@D.com' and of 'ab@d.com' have the same
\* emailClean, which has a dot in its domain part.
C12_Witness ==
    \E id1, id2 \in DOMAIN store :
        /\ store[id1].email = <<"A", ".", "B", "+", "x", "@", "D", ".", "c", "o", "m">>
        /\ store[id2].email = <<"a", "b", "@", "d", ".", "c", "o", "m">>
        /\ store[id1].emailClean = store[id2].emailClean
        /\ Dots(DomainPart(store[id1].emailClean)) # {}

----------------------------------------------------------------------------
(* Requests on a record whose token is null, and requests without a token *)

\* C13: a verify request with a non-empty token for a record whose stored
\* tokenVerify is null is answered 302 "already verified", whatever the
\* token is, and never 403; the store stays as it was.
C13_NullTokenVerify ==
    [][(/\ TokenRequest("verify_submission")'
        /\ RequestId' \in DOMAIN store
        /\ store[RequestId'].tokenVerify = None)
       => (/\ response'.statusCode = 302
           /\ response'.headers.Location = <<UI_HOST, "?verified=", RequestId'>>
           /\ response'.body.text = "Your story has already been verified! Thank you :)"
           /\ store' = store)]_vars

\* C13 witness: a verify request with a token that was never the record's
\* verify token was answered "already verified".
C13_Witness ==
    /\ TokenRequest("verify_submission")
    /\ RequestId \in DOMAIN store
    /\ store[RequestId].tokenVerify = None
    /\ RequestToken = "t2"
    /\ ~MailedVerify(RequestId, RequestToken)
    /\ response.statusCode = 302

\* the request presents no token: its query is null, has no token entry, or
\* has an empty token
NoToken(ev) ==
    \/ ev.queryStringParameters = NoDict
    \/ Get(CHOOSE d \in ev.queryStringParameters : TRUE, "token") \in {{}, {""}}

\* C14 as claimed: a verify or delete request with a non-empty id and no
\* token is answered 400 "Token missing" and leaves the store as it was,
\* whether or not the id names a record.
C14_TokenMissing ==
    [][(/\ event'.op \in {"verify_submission", "delete_submission"}
        /\ RequestId' # <<>>
        /\ NoToken(event'))
       => (/\ response'.statusCode = 400
           /\ response'.body = [text |-> "Token missing"]
           /\ store' = store)]_vars

----------------------------------------------------------------------------
(* Invocations that overlap *)

\* the invocations that have reached pc
At(pc) == {p \in Calls : calls[p].pc = pc}

\* the invocation p returns in this step
Returns(p) == calls[p] # Idle /\ calls'[p] = Idle

\* the record an invocation of post_submission holds
Held(p) == CHOOSE r \in calls[p].record : TRUE

\* C15: an invocation of post_submission that has passed the existence count
\* creates its record and returns 200 whatever the store holds by then; so
\* two invocations with emails of the same clean_email that both count before
\* either writes both create a record.
C15_BothCreate ==
    [][\A p \in At("index") :
          Returns(p)
             => /\ response'.statusCode = 200
                /\ \E id \in DOMAIN store' \ DOMAIN store : store'[id] = Held(p)]_vars

\* C15 witness: two records of the same emailClean, both created and mailed
\* by post_submission, the second answered 200.
C15_Witness ==
    /\ event.op = "post_submission"
    /\ response.statusCode = 200
    /\ \E id1, id2 \in DOMAIN store :
          /\ id1 # id2
          /\ store[id1].emailClean = store[id2].emailClean
          /\ MailedVerify(id1, store[id1].tokenVerify)
          /\ MailedVerify(id2, store[id2].tokenVerify)

\* C16 as claimed: the verifiedDate of a record, once set, is the same after
\* every step in which the record stays in the store, however the verify
\* requests overlap.
C16_VerifiedOnce ==
    [][\A id \in DOMAIN store \cap DOMAIN store' :
          "verifiedDate" \in DOMAIN store[id]
             => store'[id].verifiedDate = store[id].verifiedDate]_vars

\* the ids the store has assigned so far
Assigned == {NewId(n) : n \in 1..nextId}

\* C17: every record is under an id the store has assigned, and a step adds
\* no record but one under an id never assigned before; so the id of a
\* record that delete_submission removed names no record in any later state,
\* also after a verify invocation that passed its token check before the
\* delete performs its update.
C17_DeletedStaysDeleted ==
    [][/\ DOMAIN store \subseteq Assigned
       /\ Assigned \subseteq Assigned'
       /\ DOMAIN store' \ DOMAIN store \subseteq Assigned' \ Assigned]_vars

\* C17 witness: a verify invocation performed its update after the record was
\* deleted; the update failed and the id names no record.
C17_Witness ==
    /\ event.op = "verify_submission"
    /\ response = Unhandled("NotFoundError")
    /\ RequestId \in Assigned
    /\ RequestId \notin DOMAIN store

\* C20: every record has a null tokenVerify exactly if it has verifiedDate,
\* and has a tokenDelete that is not null, however the requests overlap.
C20_TokenIffPending ==
    \A id \in DOMAIN store :
        /\ store[id].tokenVerify = None <=> "verifiedDate" \in DOMAIN store[id]
        /\ store[id].tokenDelete # None
        /\ "tokenDelete" \in DOMAIN store[id]

\* C20 witness: a record created verified and a record verified by its token
\* are in the store while a verify invocation is at its update.
C20_Witness ==
    /\ At("update") # {}
    /\ \E id1, id2 \in DOMAIN store :
          /\ Verified(store[id1])
          /\ Verified(store[id2])
          /\ MailedVerify(id1, "t1")
          /\ \A mail \in outbox : mail.verify_url[2] # id2

----------------------------------------------------------------------------
(* The order of a listing *)

\* the ids of a sequence that are in a set, each once, in the order in which
\* they come first
RECURSIVE FirstOccurrences(_, _)
FirstOccurrences(ids, wanted) ==
    IF ids = <<>> THEN <<>>
    ELSE IF Head(ids) \in wanted
         THEN <<Head(ids)>> \o FirstOccurrences(Tail(ids), wanted \ {Head(ids)})
         ELSE FirstOccurrences(Tail(ids), wanted)

\* the ids whose records a listing adds, in the order of include
ExpectedInOrder ==
    IF "include" \notin DOMAIN ListQuery THEN <<>>
    ELSE FirstOccurrences(Split(ListQuery.include, ","), Expected)

\* C18: a listing is the added records in the reverse of their order in
\* include, followed by the page; the page is in descending order of
\* verifiedDate.
C18_ListOrder ==
    event.op = "get_submissions" =>
        LET added == Len(ExpectedInOrder)
        IN /\ Len(Listed) = added + Len(ListResults.hits)
           /\ \A i \in 1..added :
                 Listed[i] = Public(store[ExpectedInOrder[added + 1 - i]])
           /\ \A i \in 1..Len(ListResults.hits) :
                 Listed[added + i] = Public(store[ListResults.hits[i].id])
           /\ \A i, j \in (added + 1)..Len(Listed) :
                 i < j => Listed[i].verifiedDate >= Listed[j].verifiedDate

\* C18 witness: include names two records outside the page, and the listing
\* starts with the second of them, followed by the first.
C18_Witness ==
    /\ event.op = "get_submissions"
    /\ Len(ExpectedInOrder) = 2
    /\ Len(Listed) >= 2
    /\ Listed[1] = Public(store[ExpectedInOrder[2]])
    /\ Listed[2] = Public(store[ExpectedInOrder[1]])
    /\ Listed[1] # Listed[2]

----------------------------------------------------------------------------
(* A mail sender that raises *)

\* no mail was sent for the record of an id
Unmailed(id) == \A mail \in outbox : mail.verify_url[2] # id

\* C19: a post_submission that ends as the unhandled fault of the mail sender
\* has added its pending record to the store and sent no mail; no step but a
\* delete takes a record out again; and a post_submission whose email has the
\* clean_email of a record left without mail is answered 409 and changes
\* nothing.
C19_NoRollback ==
    [][/\ (event'.op = "post_submission" /\ response' = Unhandled("send_email"))
          => /\ \E id \in DOMAIN store' \ DOMAIN store :
                   /\ Pending(store'[id])
                   /\ store'[id].emailClean = clean_email(RequestEmail')
             /\ outbox' = outbox
       /\ event'.op # "delete_submission"
          => \A id \in DOMAIN store : id \in DOMAIN store' /\ store'[id] = store[id]
       /\ (/\ event'.op = "post_submission"
           /\ \E id \in DOMAIN store :
                 /\ Unmailed(id)
                 /\ store[id].emailClean = clean_email(RequestEmail'))
          => (/\ response'.statusCode = 409
              /\ store' = store
              /\ outbox' = outbox)]_vars

\* C19 witness: a post_submission was answered 409 because of a record that
\* was left without mail, under another email of the same clean_email.
C19_Witness ==
    /\ event.op = "post_submission"
    /\ response.statusCode = 409
    /\ \E id \in DOMAIN store :
          /\ Unmailed(id)
          /\ Pending(store[id])
          /\ store[id].email # RequestEmail
          /\ store[id].emailClean = clean_email(RequestEmail)

====
